---- MODULE Spec2Model ----
(***************************************************************************)
(* Model of logcraft's insights engine: InsightsManager (trackLogs,        *)
(* aggregateInsight, checkThresholds, shouldGenerateInsights) together     *)
(* with the Data key-value store it consults.                              *)
(*                                                                         *)
(* Four specifications: Spec, a manager built by its constructor and       *)
(* called directly; SpecCalc, the calculate methods and aggregateInsight   *)
(* on arrays of samples; SpecLog, a LogCraft object and its log method;    *)
(* SpecData, two Data instances on one data file.                          *)
(*                                                                         *)
(* Time is counted in whole seconds (one model tick = 1000 JS              *)
(* milliseconds), so that a year of elapsed time fits TLC's integers.      *)
(***************************************************************************)
EXTENDS Integers, Sequences, FiniteSets, TLC

----------------------------------------------------------------------------
(* Bounds of the exploration *)

MaxCalls == 2
MaxTicks == 2

(* Longest array handed to the calculate methods *)
MaxLen == 5

(* Largest window size handed to calculateRollingWindow *)
MaxWindow == 3

----------------------------------------------------------------------------
(* Enumerations (src/src/types, src/unnamed/part_000) *)

LogLevels == {"debug", "info", "warn", "error"}

InsightTypes == {"errorRate", "logLevels", "responseTimes", "warningRate"}

InsightFrequencyTypes == {"everyUnit", "periodically", "afterTotalLogs"}

InsightAggregationTypes ==
    {"average", "sum", "count", "min", "max", "median", "mode",
     "standardDeviation", "percentile", "range", "rollingWindow",
     "variance", "sumOfSquares"}

(* Values a caller can pass as `level` besides the four symbols: a string  *)
(* that names no level, and undefined (the call trackLogs()).              *)
OtherLevelValues == {"fatal", "undefined"}

LevelInputs == LogLevels \cup OtherLevelValues

(* The JS value Infinity, above every finite sample offered *)
Infinity == 1000

(* Response times offered to trackLogs: two finite ones and Infinity *)
Samples == {1, 3, Infinity}

----------------------------------------------------------------------------
(* Unit lengths in seconds: the divisors of lines 356-368, which are in   *)
(* milliseconds                                                           *)

MsPerSecond == 1000

SecondSec == 1000 \div MsPerSecond
MinuteSec == (1000 * 60) \div MsPerSecond
HourSec == (1000 * 3600) \div MsPerSecond
DaySec == (1000 * 3600 * 24) \div MsPerSecond
WeekSec == 7 * DaySec

(* The clock of the first state, 2023-11-15T00:00:00Z *)
ClockStart == 19676 * DaySec

TickSteps == {DaySec}

----------------------------------------------------------------------------
(* JS values read from the store and produced by parseInt *)

Absent == [t |-> "absent", n |-> 0]
NumV(n) == [t |-> "num", n |-> n]
NaN == [t |-> "nan", n |-> 0]
JsNull == [t |-> "null", n |-> 0]

(* A value is truthy unless it is 0, NaN, null or undefined *)
Truthy(v) == v.t = "num" /\ v.n # 0

(* parseInt(x, 10) of a stored value: the number for a number or a decimal *)
(* string, NaN for null *)
ParseIntValue(v) == IF v.t = "num" THEN v ELSE NaN

(* parseInt(token, 10) of a word of the frequency string *)
ParseIntToken(tok) ==
    CASE tok = "0" -> NumV(0)
      [] tok = "1" -> NumV(1)
      [] tok = "2" -> NumV(2)
      [] tok = "3" -> NumV(3)
      [] tok = "7" -> NumV(7)
      [] tok = "1000" -> NumV(1000)
      [] OTHER -> NaN

(* String.prototype.toLowerCase on the period names used *)
ToLowerCase(s) ==
    CASE s = "Daily" -> "daily"
      [] s = "Weekly" -> "weekly"
      [] s = "MONTHLY" -> "monthly"
      [] OTHER -> s

(* a >= b on JS numbers: false as soon as one side is NaN *)
JsGeq(a, b) == a.t = "num" /\ b.t = "num" /\ a.n >= b.n

----------------------------------------------------------------------------
VARIABLES
    insightsEnabled,        \* this.insightsEnabled
    insightFrequencyType,   \* this.insightFrequencyType
    insightFrequency,       \* this.insightFrequency, as its words
    insightTypes,           \* this.insightTypes
    insightThresholds,      \* this.insightThresholds
    insightAggregations,    \* this.insightAggregations
    insightsData,           \* this.insightsData
    logCount,               \* this.logCount
    storedData,             \* the contents of the data file
    clock,                  \* what new Date() returns
    console,                \* what the last call wrote to the console
    lastCall,               \* the last call made and how it ended
    calls,                  \* number of calls made
    ticks,                  \* number of clock advances
    dataset,                \* the array handed to the calculate methods
    results,                \* the object the last call returned
    logCraft,               \* the properties of the LogCraft object
    emitted,                \* what the last call of log put out, and where
    dataFile,               \* the data file of the Data instances
    instances,              \* the Data instances: this.storedData of each
    dataCall,               \* the last call made on a Data instance
    newLogCraft             \* what new LogCraft(options) was given and found

vars == <<insightsEnabled, insightFrequencyType, insightFrequency,
          insightTypes, insightThresholds, insightAggregations,
          insightsData, logCount, storedData, clock, console, lastCall,
          calls, ticks, dataset, results, logCraft, emitted, dataFile,
          instances, dataCall, newLogCraft>>

loggerVars == <<logCraft, emitted, newLogCraft>>

dataVars == <<dataFile, instances, dataCall>>

configVars == <<insightsEnabled, insightFrequencyType, insightFrequency,
                insightTypes, insightThresholds, insightAggregations>>

----------------------------------------------------------------------------
(* Data (src/src/data.js) *)

(* The members class Data defines on the class itself (static members).   *)
(* get, set, exists, deleteAll, loadData, saveData and                    *)
(* ensureDataFileExists are all instance methods; there is no static one. *)
DataStaticMembers == {}

(* Data.prototype.exists *)
DataExists(data, key) == data[key].t # "absent"

(* Data.prototype.get: the stored value, or null for a key never set *)
DataGet(data, key) == IF DataExists(data, key) THEN data[key] ELSE JsNull

----------------------------------------------------------------------------
(* InsightsManager (src/src/insights-manager.js) *)

(* The methods class InsightsManager defines *)
InsightsManagerMethods ==
    {"trackLogs", "aggregateInsight", "calculateAverage", "calculateSum",
     "calculateCount", "calculateMin", "calculateMax", "calculateMedian",
     "calculateMode", "calculateStandardDeviation", "calculatePercentile",
     "calculateRange", "calculateRollingWindow", "calculateVariance",
     "calculateSumOfSquares", "checkThresholds", "getInsights",
     "shouldGenerateInsights"}

(* A config object is a record whose field `given` lists the keys the     *)
(* caller supplied; config.k ?? d is d for a key that was not supplied.   *)
Nullish(config, key) == key \notin config.given

(* constructor(config = {}) *)
Constructor(config) ==
    [insightsEnabled |->
        IF Nullish(config, "insightsEnabled") THEN FALSE
        ELSE config.insightsEnabled,
     insightFrequencyType |->
        IF Nullish(config, "InsightFrequencyType") THEN "everyUnit"
        ELSE config.InsightFrequencyType,
     insightFrequency |->
        IF Nullish(config, "insightFrequency") THEN <<"every", "7", "days">>
        ELSE config.insightFrequency,
     insightTypes |->
        IF Nullish(config, "InsightTypes") THEN {}
        ELSE config.InsightTypes,
     insightThresholds |->
        IF Nullish(config, "insightThresholds") THEN <<>>
        ELSE config.insightThresholds,
     insightAggregations |->
        IF Nullish(config, "insightAggregations") THEN <<>>
        ELSE config.insightAggregations,
     insightsData |->
        [counts |-> [l \in LogLevels |-> 0],
         responseTimes |-> <<>>, errorRate |-> <<>>, warningRate |-> <<>>],
     logCount |-> 0]

(* Array.prototype.sort((a, b) => a - b): insertion into a sorted prefix *)
RECURSIVE InsertSorted(_, _)
InsertSorted(sorted, x) ==
    IF sorted = <<>> THEN <<x>>
    ELSE IF x < Head(sorted) THEN <<x>> \o sorted
    ELSE <<Head(sorted)>> \o InsertSorted(Tail(sorted), x)

RECURSIVE SortAscending(_)
SortAscending(data) ==
    IF data = <<>> THEN <<>>
    ELSE InsertSorted(SortAscending(SubSeq(data, 1, Len(data) - 1)),
                      data[Len(data)])

(* The forEach of aggregateInsight from the i-th aggregation type on:     *)
(* the array as the calculations leave it (calculateMedian and            *)
(* calculatePercentile sort it in place) and the warnings written.        *)
RECURSIVE AggregateFrom(_, _, _, _)
AggregateFrom(aggregations, i, data, warned) ==
    IF i > Len(aggregations) THEN [data |-> data, warned |-> warned]
    ELSE LET aggregationType == aggregations[i] IN
         CASE aggregationType \in {"median", "percentile"} ->
                AggregateFrom(aggregations, i + 1, SortAscending(data), warned)
           [] aggregationType \in InsightAggregationTypes
                                      \ {"median", "percentile"} ->
                AggregateFrom(aggregations, i + 1, data, warned)
           [] OTHER ->
                AggregateFrom(aggregations, i + 1, data,
                              Append(warned, "warn:aggregation type not handled"))

(* aggregateInsight(type, value) applied to the array of `type` *)
AggregateInsight(aggregations, stream, value) ==
    AggregateFrom(aggregations, 1, Append(stream, value), <<>>)

----------------------------------------------------------------------------
(* The calculate methods. A number they return is a record: a quotient of *)
(* two integers in lowest terms (samples are integers, so the arithmetic  *)
(* is exact), or one of the values NaN, Infinity, -Infinity; undefined is *)
(* what reading an array past its end gives.                              *)

RECURSIVE Gcd(_, _)
Gcd(a, b) == IF b = 0 THEN a ELSE Gcd(b, a % b)

(* n / d for integers n >= 0 and d > 0 *)
Quotient(n, d) ==
    LET g == Gcd(n, d) IN [t |-> "num", n |-> n \div g, d |-> d \div g]

NotANumber == [t |-> "NaN", n |-> 0, d |-> 1]
PositiveInfinity == [t |-> "Infinity", n |-> 0, d |-> 1]
NegativeInfinity == [t |-> "-Infinity", n |-> 0, d |-> 1]
UndefinedValue == [t |-> "undefined", n |-> 0, d |-> 1]

(* n / d in JS for integers n >= 0 and d >= 0: 0 / 0 is NaN *)
Divide(n, d) ==
    IF d > 0 THEN Quotient(n, d)
    ELSE IF n = 0 THEN NotANumber ELSE PositiveInfinity

(* data.reduce((acc, value) => acc + value, 0) *)
RECURSIVE CalculateSum(_)
CalculateSum(data) ==
    IF data = <<>> THEN 0
    ELSE CalculateSum(SubSeq(data, 1, Len(data) - 1)) + data[Len(data)]

(* calculateAverage(data): sum / data.length, NaN for an empty array *)
CalculateAverage(data) == Divide(CalculateSum(data), Len(data))

(* calculateCount(data) *)
CalculateCount(data) == Len(data)

(* The elements of an array *)
Elements(data) == {data[i] : i \in 1..Len(data)}

(* calculateMin(data): Math.min(...data), Infinity with no argument *)
CalculateMin(data) ==
    IF data = <<>> THEN PositiveInfinity
    ELSE Quotient(CHOOSE x \in Elements(data) :
                    \A y \in Elements(data) : x <= y, 1)

(* calculateMax(data): Math.max(...data), -Infinity with no argument *)
CalculateMax(data) ==
    IF data = <<>> THEN NegativeInfinity
    ELSE Quotient(CHOOSE x \in Elements(data) :
                    \A y \in Elements(data) : x >= y, 1)

(* calculateMedian(data), on the array as data.sort of line 199 left it:  *)
(* data[mid - 1] and data[mid] are undefined in an empty array, and their *)
(* sum is NaN. Indices are from 0 in the source and from 1 here.          *)
CalculateMedian(sorted) ==
    LET mid == Len(sorted) \div 2 IN
      IF Len(sorted) % 2 = 0
      THEN IF sorted = <<>> THEN NotANumber
           ELSE Quotient(sorted[mid] + sorted[mid + 1], 2)
      ELSE Quotient(sorted[mid + 1], 1)

(* frequency[num] || 0 *)
FrequencyOf(frequency, num) ==
    IF num \in DOMAIN frequency THEN frequency[num] ELSE 0

(* The loop of calculateMode from the i-th element on *)
RECURSIVE ModeFrom(_, _, _, _, _)
ModeFrom(data, i, frequency, maxFreq, mode) ==
    IF i > Len(data) THEN mode
    ELSE LET num == data[i]
             count == FrequencyOf(frequency, num) + 1
             frequency1 == [k \in DOMAIN frequency \cup {num} |->
                              IF k = num THEN count ELSE frequency[k]]
         IN IF count > maxFreq
            THEN ModeFrom(data, i + 1, frequency1, count, <<num>>)
            ELSE IF count = maxFreq
            THEN ModeFrom(data, i + 1, frequency1, maxFreq, Append(mode, num))
            ELSE ModeFrom(data, i + 1, frequency1, maxFreq, mode)

(* calculateMode that keeps one of the tied values *)
CalculateModeSingle(data) ==
    LET mode == ModeFrom(data, 1, [k \in {} |-> 0], 0, <<>>) IN
      IF mode = <<>> THEN mode ELSE <<mode[1]>>

(* calculateMode(data) *)
CalculateMode(data) == ModeFrom(data, 1, [k \in {} |-> 0], 0, <<>>)

(* The sum of (value - mean)^2 times N^2 over the array, where mean is    *)
(* sum / N: the sum of (N * value - sum)^2                                *)
RECURSIVE ScaledSquaredDiffs(_, _, _)
ScaledSquaredDiffs(data, N, sum) ==
    IF data = <<>> THEN 0
    ELSE LET diff == N * Head(data) - sum IN
           diff * diff + ScaledSquaredDiffs(Tail(data), N, sum)

(* calculateVariance(data): the average of the squared differences from   *)
(* the mean, NaN for an empty array                                       *)
CalculateVariance(data) ==
    LET N == Len(data) IN
      Divide(ScaledSquaredDiffs(data, N, CalculateSum(data)), N * N * N)

(* calculateStandardDeviation(data): Math.sqrt of the variance, kept as   *)
(* the square root of that number                                         *)
CalculateStandardDeviation(data) ==
    LET variance == CalculateVariance(data) IN
      IF variance.t = "num"
      THEN [t |-> "sqrt", n |-> variance.n, d |-> variance.d]
      ELSE variance

(* The default of calculatePercentile's second parameter *)
DefaultPercentile == 90

(* calculatePercentile(data, percentile), on the array as data.sort of    *)
(* line 250 left it                                                       *)
CalculatePercentile(sorted, percentile) ==
    LET index == (percentile * Len(sorted)) \div 100 IN
      IF index < Len(sorted) THEN Quotient(sorted[index + 1], 1)
      ELSE UndefinedValue

(* calculateRange(data): -Infinity - Infinity for an empty array *)
CalculateRange(data) ==
    IF data = <<>> THEN NegativeInfinity
    ELSE Quotient(CalculateMax(data).n - CalculateMin(data).n, 1)

(* data.slice(start, end) for 0 <= start: the elements at the indices     *)
(* start .. end - 1 that exist                                            *)
Slice(data, start, end) ==
    SubSeq(data, start + 1, IF end < Len(data) THEN end ELSE Len(data))

(* The loop of calculateRollingWindow from index i on *)
RECURSIVE RollingWindowFrom(_, _, _, _)
RollingWindowFrom(data, windowSize, i, result) ==
    IF i < Len(data) - windowSize + 1
    THEN RollingWindowFrom(data, windowSize, i + 1,
                           Append(result, Slice(data, i, i + windowSize)))
    ELSE result

(* calculateRollingWindow that stops one window early *)
CalculateRollingWindowShort(data, windowSize) ==
    LET result == RollingWindowFrom(data, windowSize, 0, <<>>) IN
      SubSeq(result, 1, Len(result) - 1)

(* calculateRollingWindow(data, windowSize) *)
CalculateRollingWindow(data, windowSize) ==
    RollingWindowFrom(data, windowSize, 0, <<>>)

(* The default of calculateRollingWindow's second parameter *)
DefaultWindowSize == 2

(* calculateSumOfSquares(data) *)
RECURSIVE CalculateSumOfSquares(_)
CalculateSumOfSquares(data) ==
    IF data = <<>> THEN 0
    ELSE Head(data) * Head(data) + CalculateSumOfSquares(Tail(data))

(* The array after the calculation of `aggregationType` ran on it:        *)
(* calculateMedian and calculatePercentile sort the array they are given  *)
ArrayAfter(aggregationType, data) ==
    IF aggregationType \in {"median", "percentile"}
    THEN SortAscending(data) ELSE data

(* One case of the switch of lines 91-135: the value the calculation of   *)
(* `aggregationType` returns for the array `data`                         *)
Calculate(aggregationType, data) ==
    CASE aggregationType = "average" -> CalculateAverage(data)
      [] aggregationType = "sum" -> CalculateSum(data)
      [] aggregationType = "count" -> CalculateCount(data)
      [] aggregationType = "min" -> CalculateMin(data)
      [] aggregationType = "max" -> CalculateMax(data)
      [] aggregationType = "median" -> CalculateMedian(SortAscending(data))
      [] aggregationType = "mode" -> CalculateMode(data)
      [] aggregationType = "standardDeviation" ->
           CalculateStandardDeviation(data)
      [] aggregationType = "percentile" ->
           CalculatePercentile(SortAscending(data), DefaultPercentile)
      [] aggregationType = "range" -> CalculateRange(data)
      [] aggregationType = "rollingWindow" ->
           CalculateRollingWindow(data, DefaultWindowSize)
      [] aggregationType = "variance" -> CalculateVariance(data)
      [] aggregationType = "sumOfSquares" -> CalculateSumOfSquares(data)

(* aggregationResults with the key `key` set to `value` *)
WithKey(object, key, value) ==
    [k \in DOMAIN object \cup {key} |-> IF k = key THEN value ELSE object[k]]

(* The forEach of aggregateInsight from the i-th aggregation type on:     *)
(* aggregationResults as the loop fills it, and the array as the          *)
(* calculations leave it. A type that is none of the thirteen sets no key.*)
RECURSIVE AggregationResultsFrom(_, _, _, _)
AggregationResultsFrom(aggregations, i, data, aggregationResults) ==
    IF i > Len(aggregations)
    THEN [data |-> data, aggregationResults |-> aggregationResults]
    ELSE LET aggregationType == aggregations[i] IN
         IF aggregationType \in InsightAggregationTypes
         THEN AggregationResultsFrom(
                aggregations, i + 1, ArrayAfter(aggregationType, data),
                WithKey(aggregationResults, aggregationType,
                        Calculate(aggregationType, data)))
         ELSE AggregationResultsFrom(aggregations, i + 1, data,
                                     aggregationResults)

(* The object aggregateInsight returns for the array it pushed to, and    *)
(* the array as it leaves it                                              *)
AggregationResults(aggregations, data) ==
    AggregationResultsFrom(aggregations, 1, data, [k \in {} |-> 0])

----------------------------------------------------------------------------
(* insights[type] in checkThresholds: the array of a stream that has     *)
(* samples, undefined (no entry) otherwise                                *)
HasInsight(insights, type) ==
    /\ type \in {"responseTimes", "errorRate", "warningRate"}
    /\ insights[type] # <<>>

(* insights[type].average: insightsData holds the arrays of samples, and  *)
(* an array has no property `average`                                     *)
ArrayProperty(array, name) == Absent

(* threshold.errorRate, threshold.warningRate: the values of              *)
(* insightThresholds are numbers, and a number has no such property       *)
NumberProperty(number, name) == Absent

(* a > b on JS numbers: false when a side is undefined or NaN *)
JsGt(a, b) == a.t = "num" /\ b.t = "num" /\ a.n > b.n

(* The loop of checkThresholds from the i-th entry of insightThresholds   *)
(* on: the alerts written to the console. Rates are in percent.           *)
RECURSIVE CheckThresholdsFrom(_, _, _, _)
CheckThresholdsFrom(thresholds, i, insights, out) ==
    IF i > Len(thresholds) THEN out
    ELSE LET type == thresholds[i].type
             threshold == thresholds[i].threshold
             found == ArrayProperty(insights[type], "average")
             average == IF Truthy(found) THEN found ELSE NumV(0)
             out1 == IF type = "errorRate"
                        /\ JsGt(average, NumberProperty(threshold, "errorRate"))
                     THEN Append(out, "alert:errorRate") ELSE out
             out2 == IF type = "warningRate"
                        /\ JsGt(average, NumberProperty(threshold, "warningRate"))
                     THEN Append(out1, "alert:warningRate") ELSE out1
         IN IF HasInsight(insights, type)
            THEN CheckThresholdsFrom(thresholds, i + 1, insights, out2)
            ELSE CheckThresholdsFrom(thresholds, i + 1, insights, out)

(* checkThresholds(insights) *)
CheckThresholds(thresholds, insights) ==
    CheckThresholdsFrom(thresholds, 1, insights, <<>>)

(* level.toString(): a TypeError for undefined and null *)
ToStringThrows(level) == level \in {"undefined", "null"}

(* An accepted call that appends the running log count as the sample of  *)
(* errorRate and warningRate                                              *)
TrackLogsAcceptedSamplingCount(m, level, hasResponseTime, responseTime) ==
    LET d0 == m.insightsData
        d3 == IF level = "error" /\ "errorRate" \in m.insightTypes
              THEN [d0 EXCEPT !.errorRate = Append(@, m.logCount + 2)]
              ELSE d0
        d4 == IF level = "warn" /\ "warningRate" \in m.insightTypes
              THEN [d3 EXCEPT !.warningRate = Append(@, m.logCount + 2)]
              ELSE d3
    IN [ret |-> "return", insightsData |-> d4, logCount |-> m.logCount + 1,
        console |-> <<>>]

(* Lines 56-73 of trackLogs, for a call that passed both checks: the      *)
(* fields it leaves and what it writes to the console.                    *)
(* hasResponseTime is responseTime !== null.                              *)
TrackLogsAccepted(m, level, hasResponseTime, responseTime) ==
    LET d0 == m.insightsData
        d1 == IF "logLevels" \in m.insightTypes
              THEN [d0 EXCEPT !.counts[level] = @ + 1] ELSE d0
        a2 == AggregateInsight(m.insightAggregations, d1.responseTimes,
                               responseTime)
        on2 == hasResponseTime /\ "responseTimes" \in m.insightTypes
        d2 == IF on2 THEN [d1 EXCEPT !.responseTimes = a2.data] ELSE d1
        a3 == AggregateInsight(m.insightAggregations, d2.errorRate, 1)
        on3 == level = "error" /\ "errorRate" \in m.insightTypes
        d3 == IF on3 THEN [d2 EXCEPT !.errorRate = a3.data] ELSE d2
        a4 == AggregateInsight(m.insightAggregations, d3.warningRate, 1)
        on4 == level = "warn" /\ "warningRate" \in m.insightTypes
        d4 == IF on4 THEN [d3 EXCEPT !.warningRate = a4.data] ELSE d3
        warned == (IF on2 THEN a2.warned ELSE <<>>)
                  \o (IF on3 THEN a3.warned ELSE <<>>)
                  \o (IF on4 THEN a4.warned ELSE <<>>)
    IN [ret |-> "return", insightsData |-> d4, logCount |-> m.logCount + 1,
        console |-> warned \o CheckThresholds(m.insightThresholds, d4)]

(* Lines 51-73 with the count raised for a level that is not one too *)
TrackLogsCheckedCountingAll(m, level, hasResponseTime, responseTime) ==
    IF level \notin LogLevels
    THEN [ret |-> "return", insightsData |-> m.insightsData,
          logCount |-> m.logCount + 1,
          console |-> <<"warn:invalid log level">>]
    ELSE TrackLogsAccepted(m, level, hasResponseTime, responseTime)

(* Lines 51-73 of trackLogs: the check of the level, then the tracking *)
TrackLogsChecked(m, level, hasResponseTime, responseTime) ==
    IF level \notin LogLevels
    THEN IF ToStringThrows(level)
         THEN [ret |-> "throw", insightsData |-> m.insightsData,
               logCount |-> m.logCount, console |-> <<>>]
         ELSE [ret |-> "return", insightsData |-> m.insightsData,
               logCount |-> m.logCount,
               console |-> <<"warn:invalid log level">>]
    ELSE TrackLogsAccepted(m, level, hasResponseTime, responseTime)

(* trackLogs without line 49 *)
TrackLogsWhenDisabled(m, level, hasResponseTime, responseTime) ==
    TrackLogsChecked(m, level, hasResponseTime, responseTime)

(* trackLogs(level, responseTime = null) on the manager `m`: how the call *)
(* ends, the fields it leaves and what it writes to the console.          *)
TrackLogs(m, level, hasResponseTime, responseTime) ==
    IF ~m.insightsEnabled
    THEN [ret |-> "return", insightsData |-> m.insightsData,
          logCount |-> m.logCount, console |-> <<>>]
    ELSE TrackLogsChecked(m, level, hasResponseTime, responseTime)

----------------------------------------------------------------------------
(* Date: the calendar fields of a time in seconds since the epoch (UTC)  *)

(* Year and month (0-11) of the day `z` days after 1970-01-01 *)
CivilFromDays(z0) ==
    LET z == z0 + 719468
        era == z \div 146097
        doe == z - era * 146097
        yoe == (doe - doe \div 1460 + doe \div 36524 - doe \div 146096) \div 365
        doy == doe - (365 * yoe + yoe \div 4 - yoe \div 100)
        mp == (5 * doy + 2) \div 153
        month == IF mp < 10 THEN mp + 3 ELSE mp - 9
    IN [year |-> yoe + era * 400 + (IF month <= 2 THEN 1 ELSE 0),
        month |-> month - 1]

GetFullYear(date) == CivilFromDays(date \div DaySec).year
GetMonth(date) == CivilFromDays(date \div DaySec).month

----------------------------------------------------------------------------
(* shouldGenerateInsights *)

(* The i-th element of frequencyValue.split(' '), undefined past the end *)
Word(words, i) == IF i <= Len(words) THEN words[i] ELSE "undefined"

(* Whether the call Data.get(key) of lines 343 and 410 throws: Data is    *)
(* the class, and the call is a TypeError unless the class has a static   *)
(* member get.                                                            *)
DataGetThrows == "get" \notin DataStaticMembers

(* What a method updateLastInsightGeneration would do to the store, as    *)
(* the scheduler's contract describes it: the key lastInsightGeneration   *)
(* becomes the current time.                                              *)
UpdateLastInsightGeneration(data, currentDate) ==
    [data EXCEPT !.lastInsightGeneration = NumV(currentDate)]

(* Lines 385-386, 405-406 and 414-415: the call of                        *)
(* this.updateLastInsightGeneration, a TypeError as the class has no such *)
(* method, then return true.                                              *)
Generate(data, currentDate) ==
    IF "updateLastInsightGeneration" \in InsightsManagerMethods
    THEN [ret |-> "true", storedData |-> UpdateLastInsightGeneration(data, currentDate),
          console |-> <<>>]
    ELSE [ret |-> "throw", storedData |-> data, console |-> <<>>]

NotDue(data) == [ret |-> "false", storedData |-> data, console |-> <<>>]

(* timeDiff / unitLength >= frequencyAmount, the quotient being a real    *)
(* number and the amount an integer or NaN                                *)
QuotientGeq(timeDiff, unitLength, frequencyAmount) ==
    frequencyAmount.t = "num" /\ timeDiff \div unitLength >= frequencyAmount.n

(* The EVERY_UNIT branch with a missing generation time taken as the     *)
(* epoch: due at once                                                     *)
EveryUnitFromEpoch(frequencyValue, lastGenerated, data, currentDate) ==
    IF lastGenerated.t = "num" THEN NotDue(data)
    ELSE Generate(data, currentDate)

(* Lines 346-388: the branch of EVERY_UNIT *)
EveryUnit(frequencyValue, lastGenerated, data, currentDate) ==
    LET amount == Word(frequencyValue, 1)
        unit == Word(frequencyValue, 2)
        frequencyAmount == ParseIntToken(amount)
        timeDiff == currentDate - lastGenerated.n
        monthDiff == (GetFullYear(currentDate) - GetFullYear(lastGenerated.n)) * 12
                     + (GetMonth(currentDate) - GetMonth(lastGenerated.n))
        yearDiff == GetFullYear(currentDate) - GetFullYear(lastGenerated.n)
        reached ==
            CASE unit = "seconds" -> QuotientGeq(timeDiff, SecondSec, frequencyAmount)
              [] unit = "minutes" -> QuotientGeq(timeDiff, MinuteSec, frequencyAmount)
              [] unit = "hours" -> QuotientGeq(timeDiff, HourSec, frequencyAmount)
              [] unit = "days" -> QuotientGeq(timeDiff, DaySec, frequencyAmount)
              [] unit = "weeks" -> QuotientGeq(timeDiff, WeekSec, frequencyAmount)
              [] unit = "months" -> JsGeq(NumV(monthDiff), frequencyAmount)
              [] unit = "years" -> JsGeq(NumV(yearDiff), frequencyAmount)
              [] OTHER -> FALSE
    IN IF lastGenerated.t = "num"
       THEN IF unit \notin {"seconds", "minutes", "hours", "days", "weeks",
                            "months", "years"}
            THEN [ret |-> "false", storedData |-> data,
                  console |-> <<"error:unsupported frequency unit">>]
            ELSE IF reached THEN Generate(data, currentDate) ELSE NotDue(data)
       ELSE NotDue(data)

(* periodMappings[period]: the day count, 0 standing for undefined *)
PeriodMappings(period) ==
    CASE period = "daily" -> 1
      [] period = "weekly" -> 7
      [] period = "monthly" -> 30
      [] period = "yearly" -> 365
      [] OTHER -> 0

(* Lines 389-408: the branch of PERIODICALLY. new Date(null) is the epoch *)
Periodically(frequencyValue, lastGenerated, data, currentDate) ==
    LET period == IF Len(frequencyValue) = 1 THEN ToLowerCase(frequencyValue[1])
                  ELSE "undefined"
        daysInPeriod == PeriodMappings(period)
        lastGeneratedDate == IF lastGenerated.t = "num" THEN lastGenerated.n ELSE 0
    IN IF daysInPeriod # 0
          /\ (currentDate - lastGeneratedDate) \div DaySec >= daysInPeriod
       THEN Generate(data, currentDate)
       ELSE NotDue(data)

(* Lines 409-417: the branch of AFTER_TOTAL_LOGS *)
AfterTotalLogs(frequencyValue, data, currentDate) ==
    LET parsed == ParseIntValue(DataGet(data, "totalLogs"))
        totalLogs == IF Truthy(parsed) THEN parsed ELSE NumV(0)
        requiredLogs == ParseIntToken(Word(frequencyValue, 1))
    IN IF DataGetThrows
       THEN [ret |-> "throw", storedData |-> data, console |-> <<>>]
       ELSE IF JsGeq(totalLogs, requiredLogs)
            THEN Generate(data, currentDate) ELSE NotDue(data)

(* shouldGenerateInsights() on the manager `m` with the store `data` at   *)
(* the time currentDate: how the call ends, the store it leaves and what  *)
(* it writes to the console.                                              *)
ShouldGenerateInsights(m, data, currentDate) ==
    LET frequencyType == m.insightFrequencyType
        frequencyValue == m.insightFrequency
        parsed == ParseIntValue(DataGet(data, "lastInsightGeneration"))
        lastGenerated == IF Truthy(parsed) THEN parsed ELSE JsNull
    IN IF DataGetThrows
       THEN [ret |-> "throw", storedData |-> data, console |-> <<>>]
       ELSE CASE frequencyType = "everyUnit" ->
                    EveryUnit(frequencyValue, lastGenerated, data, currentDate)
              [] frequencyType = "periodically" ->
                    Periodically(frequencyValue, lastGenerated, data, currentDate)
              [] frequencyType = "afterTotalLogs" ->
                    AfterTotalLogs(frequencyValue, data, currentDate)
              [] OTHER -> NotDue(data)

----------------------------------------------------------------------------
(* The configurations and stores explored *)

ConfigKeys == {"insightsEnabled", "InsightFrequencyType", "insightFrequency",
               "InsightTypes", "insightThresholds", "insightAggregations"}

Policies ==
    {[type |-> "everyUnit", frequency |-> <<"2", "days">>],
     [type |-> "everyUnit", frequency |-> <<"every", "2", "days">>],
     [type |-> "everyUnit", frequency |-> <<"2", "fortnights">>],
     [type |-> "everyUnit", frequency |-> <<"1", "months">>],
     [type |-> "periodically", frequency |-> <<"Daily">>],
     [type |-> "periodically", frequency |-> <<"hourly">>],
     [type |-> "afterTotalLogs", frequency |-> <<"1000">>]}

(* What is tracked, alerted on and aggregated: all four insight types    *)
(* with the default thresholds (0.05 each, in percent) and the default    *)
(* aggregations, or all but the counts of the levels with no threshold,   *)
(* the median and an aggregation type that does not exist.                *)
Profiles ==
    {[types |-> InsightTypes,
      thresholds |-> <<[type |-> "errorRate", threshold |-> 5],
                       [type |-> "warningRate", threshold |-> 5]>>,
      aggregations |-> <<"average", "max">>],
     [types |-> {"errorRate", "warningRate", "responseTimes"},
      thresholds |-> <<>>,
      aggregations |-> <<"median", "bogus">>]}

Configs ==
    {[given |-> g, insightsEnabled |-> e, InsightFrequencyType |-> p.type,
      insightFrequency |-> p.frequency, InsightTypes |-> f.types,
      insightThresholds |-> f.thresholds,
      insightAggregations |-> f.aggregations] :
        g \in {ConfigKeys, {}}, e \in BOOLEAN, p \in Policies,
        f \in Profiles}

Stores ==
    {[lastInsightGeneration |-> g, totalLogs |-> n] :
        g \in {Absent, NumV(ClockStart - DaySec), NumV(ClockStart - 3 * DaySec)},
        n \in {Absent, NumV(999), NumV(1000)}}

NoCall == [op |-> "none", level |-> "none", hasResponseTime |-> FALSE,
           responseTime |-> 0, ret |-> "none"]

(* What a call returned, when the model keeps it: `shape` says what kind  *)
(* of object `value` is, `kind` and `windowSize` which calculation was    *)
(* called, and `of` is the array the call was given.                      *)
Returned(shape, kind, windowSize, of, value) ==
    [shape |-> shape, kind |-> kind, windowSize |-> windowSize, of |-> of,
     value |-> value]

(* No object returned: the last call returned no object, or none was made *)
NoResults == Returned("none", "none", 0, <<>>, 0)

(* No LogCraft object: none was constructed, or the constructor threw *)
NoLogCraft ==
    [constructed |-> FALSE, logLevel |-> "undefined", logToConsole |-> FALSE,
     enableColors |-> FALSE, logFormat |-> "undefined",
     thirdPartyServiceEnabled |-> FALSE, insightsEnabled |-> FALSE]

(* No call of new LogCraft(options) *)
NoNewLogCraft == [options |-> "none", configData |-> "none"]

(* The keys and the values the callers of a Data instance use *)
DataKeys == {"k1", "k2"}
DataValues == {NumV(1), NumV(2), NaN}
DataInstances == {"A", "B"}

(* this.storedData = {}: an object with no key of its own *)
EmptyObject == [key \in DataKeys |-> Absent]

(* No data file, no Data instance and no call on one *)
NoDataFile == [exists |-> FALSE, content |-> EmptyObject]
NoInstances ==
    [i \in DataInstances |-> [constructed |-> FALSE, storedData |-> EmptyObject]]
NoDataCall == [op |-> "none", instance |-> "none", key |-> "none",
               value |-> Absent, ret |-> Absent, found |-> FALSE]

----------------------------------------------------------------------------
(* The state machine *)

Init ==
    /\ \E config \in Configs :
         LET m == Constructor(config) IN
           /\ insightsEnabled = m.insightsEnabled
           /\ insightFrequencyType = m.insightFrequencyType
           /\ insightFrequency = m.insightFrequency
           /\ insightTypes = m.insightTypes
           /\ insightThresholds = m.insightThresholds
           /\ insightAggregations = m.insightAggregations
           /\ insightsData = m.insightsData
           /\ logCount = m.logCount
    /\ storedData \in Stores
    /\ clock = ClockStart
    /\ console = <<>>
    /\ lastCall = NoCall
    /\ calls = 0
    /\ ticks = 0
    /\ dataset = <<>>
    /\ results = NoResults
    /\ logCraft = NoLogCraft
    /\ newLogCraft = NoNewLogCraft
    /\ emitted = <<>>
    /\ dataFile = NoDataFile
    /\ instances = NoInstances
    /\ dataCall = NoDataCall

(* The manager as the fields stand *)
Manager ==
    [insightsEnabled |-> insightsEnabled,
     insightFrequencyType |-> insightFrequencyType,
     insightFrequency |-> insightFrequency,
     insightTypes |-> insightTypes,
     insightThresholds |-> insightThresholds,
     insightAggregations |-> insightAggregations,
     insightsData |-> insightsData,
     logCount |-> logCount]

(* A caller runs trackLogs(level, responseTime) *)
CallTrackLogs(level, hasResponseTime, responseTime) ==
    /\ calls < MaxCalls
    /\ LET r == TrackLogs(Manager, level, hasResponseTime, responseTime) IN
         /\ insightsData' = r.insightsData
         /\ logCount' = r.logCount
         /\ console' = r.console
         /\ lastCall' = [op |-> "trackLogs", level |-> level,
                         hasResponseTime |-> hasResponseTime,
                         responseTime |-> responseTime, ret |-> r.ret]
    /\ calls' = calls + 1
    /\ results' = NoResults
    /\ UNCHANGED <<dataVars, loggerVars, configVars, storedData, clock, ticks,
                   dataset>>

(* A caller runs shouldGenerateInsights() *)
CallShouldGenerateInsights ==
    /\ calls < MaxCalls
    /\ LET r == ShouldGenerateInsights(Manager, storedData, clock) IN
         /\ storedData' = r.storedData
         /\ console' = r.console
         /\ lastCall' = [op |-> "shouldGenerateInsights", level |-> "none",
                         hasResponseTime |-> FALSE, responseTime |-> 0,
                         ret |-> r.ret]
    /\ calls' = calls + 1
    /\ results' = NoResults
    /\ UNCHANGED <<dataVars, loggerVars, configVars, insightsData, logCount, clock,
                   ticks, dataset>>

(* A caller runs getInsights(): the call returns this.insightsData *)
CallGetInsights ==
    /\ calls < MaxCalls
    /\ results' = Returned("insightsData", "none", 0, <<>>, insightsData)
    /\ console' = <<>>
    /\ lastCall' = [op |-> "getInsights", level |-> "none",
                    hasResponseTime |-> FALSE, responseTime |-> 0,
                    ret |-> "return"]
    /\ calls' = calls + 1
    /\ UNCHANGED <<dataVars, loggerVars, configVars, insightsData, logCount,
                   storedData, clock,
                   ticks, dataset>>

(* Time passes *)
Tick(step) ==
    /\ ticks < MaxTicks
    /\ clock' = clock + step
    /\ ticks' = ticks + 1
    /\ UNCHANGED <<dataVars, loggerVars, configVars, insightsData, logCount,
                   storedData, console,
                   lastCall, calls, dataset, results>>

Next ==
    \/ \E level \in LevelInputs :
         \/ CallTrackLogs(level, FALSE, 0)
         \/ \E responseTime \in Samples : CallTrackLogs(level, TRUE, responseTime)
    \/ CallShouldGenerateInsights
    \/ CallGetInsights
    \/ \E step \in TickSteps : Tick(step)

Spec == Init /\ [][Next]_vars

----------------------------------------------------------------------------
(* The calculate methods and aggregateInsight on their own: a caller      *)
(* hands them an array, which aggregateInsight takes for the array of a   *)
(* stream.                                                                *)

(* Samples of the arrays *)
CalcSamples == {1, 2, 3}

(* The arrays of up to MaxLen samples *)
Datasets == UNION {[1..n -> CalcSamples] : n \in 0..MaxLen}

(* The values of insightAggregations the manager is built with *)
KindLists ==
    {<<"average", "min", "max">>,
     <<"rollingWindow", "median">>,
     <<"mode", "percentile", "rollingWindow", "bogus">>,
     <<"sum", "count", "standardDeviation", "range", "variance",
       "sumOfSquares">>}

InitCalc ==
    /\ \E aggregations \in KindLists :
         LET m == Constructor([given |-> {"insightsEnabled", "InsightTypes",
                                         "insightAggregations"},
                               insightsEnabled |-> TRUE,
                               InsightTypes |-> InsightTypes,
                               insightAggregations |-> aggregations])
         IN /\ insightsEnabled = m.insightsEnabled
            /\ insightFrequencyType = m.insightFrequencyType
            /\ insightFrequency = m.insightFrequency
            /\ insightTypes = m.insightTypes
            /\ insightThresholds = m.insightThresholds
            /\ insightAggregations = m.insightAggregations
            /\ insightsData = m.insightsData
            /\ logCount = m.logCount
    /\ storedData = [lastInsightGeneration |-> Absent, totalLogs |-> Absent]
    /\ clock = ClockStart
    /\ console = <<>>
    /\ lastCall = NoCall
    /\ calls = 0
    /\ ticks = 0
    /\ dataset \in Datasets
    /\ results = NoResults
    /\ logCraft = NoLogCraft
    /\ newLogCraft = NoNewLogCraft
    /\ emitted = <<>>
    /\ dataFile = NoDataFile
    /\ instances = NoInstances
    /\ dataCall = NoDataCall

(* A caller runs the calculate method of `aggregationType` on the array,  *)
(* with the default of its second parameter, if it has one                *)
CallCalculate(aggregationType) ==
    /\ results' = Returned("value", aggregationType, DefaultWindowSize,
                           dataset, Calculate(aggregationType, dataset))
    /\ dataset' = ArrayAfter(aggregationType, dataset)
    /\ UNCHANGED <<dataVars, loggerVars, configVars, insightsData, logCount,
                   storedData, clock,
                   console, lastCall, calls, ticks>>

(* A caller runs calculateRollingWindow(dataset, windowSize) *)
CallCalculateRollingWindow(windowSize) ==
    /\ results' = Returned("value", "rollingWindow", windowSize, dataset,
                           CalculateRollingWindow(dataset, windowSize))
    /\ UNCHANGED <<dataVars, loggerVars, configVars, insightsData, logCount,
                   storedData, clock,
                   console, lastCall, calls, ticks, dataset>>

(* A caller runs aggregateInsight(type, value), the array being that of   *)
(* `type`                                                                 *)
CallAggregateInsight(value) ==
    /\ Len(dataset) < MaxLen
    /\ LET pushed == Append(dataset, value)
           r == AggregationResults(insightAggregations, pushed)
       IN /\ dataset' = r.data
          /\ results' = Returned("aggregationResults", "none", 0, pushed,
                                 r.aggregationResults)
          /\ console' = AggregateInsight(insightAggregations, dataset,
                                         value).warned
    /\ UNCHANGED <<dataVars, loggerVars, configVars, insightsData, logCount,
                   storedData, clock,
                   lastCall, calls, ticks>>

NextCalc ==
    \/ \E aggregationType \in InsightAggregationTypes :
         CallCalculate(aggregationType)
    \/ \E windowSize \in 1..MaxWindow : CallCalculateRollingWindow(windowSize)
    \/ \E value \in CalcSamples : CallAggregateInsight(value)

SpecCalc == InitCalc /\ [][NextCalc]_vars

----------------------------------------------------------------------------
(* LogCraft (src/src/logcraft.js). Option and file values are strings:    *)
(* "undefined" for a key that is not there, "true" and "false" for the    *)
(* booleans, and the name of a symbol for the symbol.                     *)

LogFormats ==
    {"json", "csv", "plainText", "xml", "yaml", "syslog", "logfmt",
     "markdown", "html", "binary", "ndjson"}

(* The formats whose case of formatLogData puts logData.level, a symbol,  *)
(* in a template literal or joins it into a string: a TypeError           *)
FormatsThatPrintLevel ==
    {"csv", "plainText", "xml", "yaml", "logfmt", "markdown", "html"}

(* !v for the values above *)
Falsy(v) == v \in {"undefined", "false", "null", ""}

(* a || b *)
OrElse(a, b) == IF Falsy(a) THEN b ELSE a

(* The keys of src/src/config/defaults.js that buildLogCraftProperties    *)
(* reads at the top level; logFormat is under `file` there, so            *)
(* config.logFormat is undefined                                          *)
DefaultConfigs ==
    [logLevel |-> "info", logToConsole |-> "true", enableColors |-> "true",
     insightsEnabled |-> "false", insightFrequencyType |-> "everyUnit",
     logFormat |-> "undefined",
     thirdPartyService |-> [enabled |-> "false"]]

(* The options whose || chain reads a section of the config file next:    *)
(* configData.file, .insightThresholds, .thirdPartyService and            *)
(* .analyticsService are undefined when there is no config file           *)
SectionOptions ==
    {"logDir", "logFileName", "insightThresholdsErrorRate",
     "insightThresholdsWarningRate", "thirdPartyServiceEnabled",
     "thirdPartyServiceUrl", "thirdPartyServiceApiKey",
     "analyticsServiceEnabled", "analyticsServiceUrl",
     "analyticsServiceApiKey"}

(* The fields a LogCraft object has that hold an insights manager *)
LogCraftManagerFields == {"insightsManager"}

(* levels[level]: undefined for a symbol that is not one of the four *)
LevelRank(level) ==
    CASE level = "debug" -> NumV(1)
      [] level = "info" -> NumV(2)
      [] level = "warn" -> NumV(3)
      [] level = "error" -> NumV(4)
      [] OTHER -> Absent

(* a < b on JS numbers: false when a side is undefined *)
JsLt(a, b) == a.t = "num" /\ b.t = "num" /\ a.n < b.n

(* buildLogCraftProperties(options) with the config file `configData`:    *)
(* the properties log() reads, and insightsEnabled as handed to the       *)
(* insights manager. Without a config file the read of a section's key    *)
(* is a TypeError, reached when the option before it in the chain is      *)
(* falsy.                                                                 *)
BuildLogCraftProperties(options, configData) ==
    IF ~configData.present /\ \E key \in SectionOptions : Falsy(options[key])
    THEN NoLogCraft
    ELSE [constructed |-> TRUE,
          logLevel |->
            OrElse(options.logLevel,
                   OrElse(configData.logLevel,
                          OrElse(DefaultConfigs.logLevel, "info"))),
          logToConsole |->
            ~Falsy(OrElse(options.logToConsole,
                          OrElse(configData.logToConsole,
                                 OrElse(DefaultConfigs.logToConsole, "true")))),
          enableColors |->
            ~Falsy(OrElse(options.enableColors,
                          OrElse(configData.enableColors,
                                 OrElse(DefaultConfigs.enableColors, "true")))),
          logFormat |->
            OrElse(options.logFormat,
                   OrElse(configData.logFormat,
                          OrElse(DefaultConfigs.logFormat, "json"))),
          thirdPartyServiceEnabled |->
            ~Falsy(OrElse(options.thirdPartyServiceEnabled,
                          OrElse(configData.thirdPartyService.enabled,
                                 OrElse(DefaultConfigs.thirdPartyService.enabled,
                                        "false")))),
          insightsEnabled |->
            ~Falsy(OrElse(options.insightsEnabled,
                          OrElse(configData.insightsEnabled,
                                 OrElse(DefaultConfigs.insightsEnabled,
                                        "false"))))]

(* The config object of lines 570-576: the keys insightsEnabled,          *)
(* insightTypes, insightFrequency, insightRetentionPeriod and             *)
(* insightThresholds, the thresholds being the object of lines 532-535    *)
ManagerConfig(properties) ==
    [given |-> {"insightsEnabled", "insightTypes", "insightFrequency",
                "insightRetentionPeriod", "insightThresholds"},
     insightsEnabled |-> properties.insightsEnabled,
     insightFrequency |-> <<"every", "7", "days">>,
     insightThresholds |-> <<[type |-> "errorRate", threshold |-> 5],
                             [type |-> "warningRate", threshold |-> 5]>>]

(* The filter of line 95 with <= for < *)
BelowOrAtLogLevel(lc, level) ==
    LevelRank(level).t = "num" /\ LevelRank(lc.logLevel).t = "num"
      /\ LevelRank(level).n <= LevelRank(lc.logLevel).n

(* Line 95: the message is below the minimum level *)
BelowLogLevel(lc, level) == JsLt(LevelRank(level), LevelRank(lc.logLevel))

(* Lines 100-119 of log: what the call puts out before it turns to the    *)
(* insights, and whether formatLogData threw on the way                   *)
LogOutputs(lc, level) ==
    LET printed == IF lc.logToConsole
                   THEN <<IF lc.enableColors THEN "console:colorized"
                          ELSE "console:plain">>
                   ELSE <<>>
        threw == lc.logFormat \notin LogFormats
                   \/ lc.logFormat \in FormatsThatPrintLevel
        written == Append(printed, IF lc.logFormat = "json"
                                   THEN "file:appendLogFunction"
                                   ELSE "file:logToFile")
    IN [threw |-> threw,
        emitted |-> IF threw THEN printed
                    ELSE IF lc.thirdPartyServiceEnabled
                    THEN Append(written, "thirdPartyLoggingService")
                    ELSE written]

(* What log leaves when it changes nothing of the manager `m` and the     *)
(* store, and ends as `ret`                                               *)
LogLeaves(m, data, ret) ==
    [ret |-> ret, insightsData |-> m.insightsData, logCount |-> m.logCount,
     storedData |-> data, console |-> <<>>, emitted |-> <<>>]

(* Lines 121-125 of log once this.InsightManager is read: `s` is what the *)
(* call of shouldGenerateInsights gives and `t` what the call of          *)
(* trackLogs(logEntry) gives, made when the scheduler answered true       *)
LogAfterScheduler(same, s, t) ==
    IF s.ret = "throw"
    THEN [same EXCEPT !.ret = "throw", !.console = s.console]
    ELSE IF s.ret = "false"
    THEN [same EXCEPT !.storedData = s.storedData, !.console = s.console]
    ELSE [ret |-> t.ret, insightsData |-> t.insightsData,
          logCount |-> t.logCount, storedData |-> s.storedData,
          console |-> s.console \o t.console,
          emitted |-> IF t.ret = "throw" THEN <<>>
                      ELSE <<"thirdPartyAnalyticsService">>]

(* Lines 121-125 of log on the manager `m`: the scheduler is asked        *)
(* through this.InsightManager, a field LogCraft does not have, and       *)
(* trackLogs is given logEntry, an object, as the level                   *)
LogInsights(m, data, currentDate) ==
    IF ~m.insightsEnabled THEN LogLeaves(m, data, "return")
    ELSE IF "InsightManager" \notin LogCraftManagerFields
    THEN LogLeaves(m, data, "throw")
    ELSE LogAfterScheduler(LogLeaves(m, data, "return"),
                           ShouldGenerateInsights(m, data, currentDate),
                           TrackLogs(m, "logEntry", FALSE, 0))

(* log once the level filter is passed: `out` is what lines 100-119 put   *)
(* out and `ins` what lines 121-125 leave                                 *)
LogPassed(thrown, out, ins) ==
    IF out.threw THEN [thrown EXCEPT !.emitted = out.emitted]
    ELSE [ins EXCEPT !.emitted = out.emitted \o ins.emitted]

(* log(message, level) on the LogCraft object `lc` with the manager `m` *)
Log(lc, m, data, currentDate, level) ==
    IF BelowLogLevel(lc, level) THEN LogLeaves(m, data, "return")
    ELSE LogPassed(LogLeaves(m, data, "throw"), LogOutputs(lc, level),
                   LogInsights(m, data, currentDate))

(* The options a caller hands to new LogCraft(options) *)
OptionKeys ==
    SectionOptions \cup {"logLevel", "logToConsole", "enableColors",
                         "logFormat", "insightsEnabled"}

LogOptions ==
    {[key \in OptionKeys |->
        CASE key = "logLevel" -> level
          [] key = "logFormat" -> format
          [] key = "insightsEnabled" -> enabled
          [] key = "logToConsole" -> toConsole
          [] key = "enableColors" -> colors
          [] key = "thirdPartyServiceEnabled" -> thirdParty
          [] OTHER -> section] :
       level \in {"undefined", "debug", "warn"},
       format \in {"undefined", "plainText", "syslog"},
       enabled \in {"undefined", "true"},
       toConsole \in {"undefined", "false"},
       colors \in {"undefined", "false"},
       thirdParty \in {"undefined", "true"},
       section \in {"undefined", "given"}}

(* logcraft.config.json: none, one that sets no key log() depends on, and *)
(* one that sets them                                                     *)
ConfigFiles ==
    {[present |-> FALSE, logLevel |-> "undefined",
      logToConsole |-> "undefined", enableColors |-> "undefined",
      logFormat |-> "undefined", insightsEnabled |-> "undefined",
      thirdPartyService |-> [enabled |-> "undefined"]],
     [present |-> TRUE, logLevel |-> "undefined",
      logToConsole |-> "undefined", enableColors |-> "undefined",
      logFormat |-> "undefined", insightsEnabled |-> "undefined",
      thirdPartyService |-> [enabled |-> "false"]],
     [present |-> TRUE, logLevel |-> "error",
      logToConsole |-> "false", enableColors |-> "false",
      logFormat |-> "ndjson", insightsEnabled |-> "true",
      thirdPartyService |-> [enabled |-> "true"]]}

(* new LogCraft(options): the properties built, and the insights manager  *)
(* among them                                                             *)
InitLog ==
    /\ \E options \in LogOptions, configData \in ConfigFiles :
         LET properties == BuildLogCraftProperties(options, configData)
             m == Constructor(ManagerConfig(properties))
         IN /\ logCraft = properties
            /\ newLogCraft = [options |-> options, configData |-> configData]
            /\ insightsEnabled = m.insightsEnabled
            /\ insightFrequencyType = m.insightFrequencyType
            /\ insightFrequency = m.insightFrequency
            /\ insightTypes = m.insightTypes
            /\ insightThresholds = m.insightThresholds
            /\ insightAggregations = m.insightAggregations
            /\ insightsData = m.insightsData
            /\ logCount = m.logCount
    /\ storedData \in Stores
    /\ clock = ClockStart
    /\ console = <<>>
    /\ lastCall = NoCall
    /\ calls = 0
    /\ ticks = 0
    /\ dataset = <<>>
    /\ results = NoResults
    /\ emitted = <<>>
    /\ dataFile = NoDataFile
    /\ instances = NoInstances
    /\ dataCall = NoDataCall

(* Levels a caller passes to log: the four symbols and another symbol *)
LogLevelInputs == LogLevels \cup {"fatal"}

(* A caller runs log(message, level) on the LogCraft object *)
CallLog(level) ==
    /\ logCraft.constructed
    /\ calls < MaxCalls
    /\ LET r == Log(logCraft, Manager, storedData, clock, level) IN
         /\ insightsData' = r.insightsData
         /\ logCount' = r.logCount
         /\ storedData' = r.storedData
         /\ console' = r.console
         /\ emitted' = r.emitted
         /\ lastCall' = [op |-> "log", level |-> level,
                         hasResponseTime |-> FALSE, responseTime |-> 0,
                         ret |-> r.ret]
    /\ calls' = calls + 1
    /\ results' = NoResults
    /\ UNCHANGED <<dataVars, configVars, logCraft, newLogCraft, clock, ticks,
                   dataset>>

NextLog == \E level \in LogLevelInputs : CallLog(level)

SpecLog == InitLog /\ [][NextLog]_vars

----------------------------------------------------------------------------
(* Data instances on one data file (src/src/data.js) *)

(* JSON.stringify(this.storedData, null, 2): a NaN is written as null *)
JsonStringify(object) ==
    [key \in DataKeys |-> IF object[key].t = "nan" THEN JsNull ELSE object[key]]

(* JSON.parse(fileData): the keys and values the text holds *)
JsonParse(text) == [key \in DataKeys |-> text[key]]

(* Data.prototype.ensureDataFileExists: a missing file is written as '{}' *)
EnsureDataFileExists(file) ==
    IF file.exists THEN file
    ELSE [exists |-> TRUE, content |-> JsonStringify(EmptyObject)]

(* Data.prototype.loadData: this.storedData becomes what the file holds *)
LoadData(file) == JsonParse(file.content)

(* Data.prototype.saveData: the file becomes the whole of this.storedData *)
SaveData(object) == [exists |-> TRUE, content |-> JsonStringify(object)]

(* new Data(): the file is created when missing, then loaded *)
NewData(file) ==
    [constructed |-> TRUE, storedData |-> LoadData(EnsureDataFileExists(file))]

DataSetOnly(object, key, value) ==
    [k \in DataKeys |-> IF k = key THEN value ELSE Absent]

(* this.storedData[key] = value in Data.prototype.set *)
DataSet(object, key, value) == [object EXCEPT ![key] = value]

(* Data.prototype.deleteAll: the file is unlinked, this.storedData stays *)
DeleteAll(file) == [exists |-> FALSE, content |-> EmptyObject]

(* The files a first instance may find: none, an empty one, one with a key *)
DataFiles ==
    {NoDataFile,
     [exists |-> TRUE, content |-> EmptyObject],
     [exists |-> TRUE, content |-> [EmptyObject EXCEPT !["k1"] = NumV(2)]]}

InitData ==
    /\ LET m == Constructor([given |-> {}]) IN
         /\ insightsEnabled = m.insightsEnabled
         /\ insightFrequencyType = m.insightFrequencyType
         /\ insightFrequency = m.insightFrequency
         /\ insightTypes = m.insightTypes
         /\ insightThresholds = m.insightThresholds
         /\ insightAggregations = m.insightAggregations
         /\ insightsData = m.insightsData
         /\ logCount = m.logCount
    /\ storedData = [lastInsightGeneration |-> Absent, totalLogs |-> Absent]
    /\ clock = ClockStart
    /\ console = <<>>
    /\ lastCall = NoCall
    /\ calls = 0
    /\ ticks = 0
    /\ dataset = <<>>
    /\ results = NoResults
    /\ logCraft = NoLogCraft
    /\ newLogCraft = NoNewLogCraft
    /\ emitted = <<>>
    /\ \E file \in DataFiles, both \in BOOLEAN :
         /\ dataFile = EnsureDataFileExists(file)
         /\ instances =
              [i \in DataInstances |->
                 IF i = "A" \/ both THEN NewData(file) ELSE NoInstances[i]]
    /\ dataCall = NoDataCall

dataOthers == <<insightsData, logCount, storedData, clock, console, lastCall,
                ticks, dataset, results>>

(* A caller runs new Data() and keeps the instance as i *)
CallNewData(i) ==
    /\ calls < MaxCalls
    /\ dataFile' = EnsureDataFileExists(dataFile)
    /\ instances' = [instances EXCEPT ![i] = NewData(dataFile)]
    /\ dataCall' = [NoDataCall EXCEPT !.op = "new", !.instance = i]
    /\ calls' = calls + 1
    /\ UNCHANGED <<loggerVars, configVars, dataOthers>>

(* A caller runs i.set(key, value) *)
CallSet(i, key, value) ==
    /\ calls < MaxCalls
    /\ instances[i].constructed
    /\ LET object == DataSet(instances[i].storedData, key, value) IN
         /\ instances' = [instances EXCEPT ![i].storedData = object]
         /\ dataFile' = SaveData(object)
    /\ dataCall' = [NoDataCall EXCEPT !.op = "set", !.instance = i,
                                      !.key = key, !.value = value]
    /\ calls' = calls + 1
    /\ UNCHANGED <<loggerVars, configVars, dataOthers>>

(* A caller runs i.get(key) *)
CallGet(i, key) ==
    /\ calls < MaxCalls
    /\ instances[i].constructed
    /\ dataCall' = [NoDataCall EXCEPT
                      !.op = "get", !.instance = i, !.key = key,
                      !.ret = DataGet(instances[i].storedData, key)]
    /\ calls' = calls + 1
    /\ UNCHANGED <<dataFile, instances, loggerVars, configVars, dataOthers>>

(* A caller runs i.exists(key) *)
CallExists(i, key) ==
    /\ calls < MaxCalls
    /\ instances[i].constructed
    /\ dataCall' = [NoDataCall EXCEPT
                      !.op = "exists", !.instance = i, !.key = key,
                      !.found = DataExists(instances[i].storedData, key)]
    /\ calls' = calls + 1
    /\ UNCHANGED <<dataFile, instances, loggerVars, configVars, dataOthers>>

(* A caller runs i.deleteAll() *)
CallDeleteAll(i) ==
    /\ calls < MaxCalls
    /\ instances[i].constructed
    /\ dataFile' = DeleteAll(dataFile)
    /\ dataCall' = [NoDataCall EXCEPT !.op = "deleteAll", !.instance = i]
    /\ calls' = calls + 1
    /\ UNCHANGED <<instances, loggerVars, configVars, dataOthers>>

NextData ==
    \/ \E i \in DataInstances : CallNewData(i)
    \/ \E i \in DataInstances, key \in DataKeys, value \in DataValues :
         CallSet(i, key, value)
    \/ \E i \in DataInstances, key \in DataKeys : CallGet(i, key)
    \/ \E i \in DataInstances, key \in DataKeys : CallExists(i, key)
    \/ \E i \in DataInstances : CallDeleteAll(i)

SpecData == InitData /\ [][NextData]_vars

----------------------------------------------------------------------------
(* Vocabulary of the properties *)

(* The step is a call of shouldGenerateInsights *)
SchedulerStep ==
    calls' = calls + 1 /\ lastCall'.op = "shouldGenerateInsights"

(* The step is a call of trackLogs *)
TrackStep == calls' = calls + 1 /\ lastCall'.op = "trackLogs"

WallClockUnits == {"seconds", "minutes", "hours", "days", "weeks"}

SupportedUnits == WallClockUnits \cup {"months", "years"}

UnitLength(unit) ==
    CASE unit = "seconds" -> SecondSec
      [] unit = "minutes" -> MinuteSec
      [] unit = "hours" -> HourSec
      [] unit = "days" -> DaySec
      [] unit = "weeks" -> WeekSec

(* A generation time is stored *)
TimestampStored == storedData.lastInsightGeneration.t = "num"

(* Time elapsed since the stored generation time *)
Elapsed == clock - storedData.lastInsightGeneration.n

(* The configured amount and unit of "<amount> <unit>" *)
ConfiguredAmount == ParseIntToken(Word(insightFrequency, 1))
ConfiguredUnit == Word(insightFrequency, 2)

(* The persisted totalLogs, an absent key counting as 0 *)
TotalLogs(data) == IF data.totalLogs.t = "num" THEN data.totalLogs.n ELSE 0

(* The threshold of AfterTotalLogs *)
RequiredLogs == ParseIntToken(Word(insightFrequency, 1))

RECURSIVE SumOf(_)
SumOf(data) == IF data = <<>> THEN 0 ELSE Head(data) + SumOf(Tail(data))

(* An alert of the last call names the metric *)
Alerted(metric) ==
    \E i \in 1..Len(console) : console[i] = "alert:" \o metric

----------------------------------------------------------------------------
(* C1: under EVERY_UNIT with a unit among seconds, minutes, hours, days   *)
(* and weeks, shouldGenerateInsights returns true if and only if a        *)
(* generation time is stored and the time elapsed since it, divided by    *)
(* the unit length, is at least the configured amount.                    *)
C1_EveryUnitTrueIffElapsed ==
    [][(/\ SchedulerStep
        /\ insightFrequencyType = "everyUnit"
        /\ ConfiguredUnit \in WallClockUnits
        /\ ConfiguredAmount.t = "num")
       => (lastCall'.ret = "true"
           <=> (/\ TimestampStored
                /\ Elapsed \div UnitLength(ConfiguredUnit) >= ConfiguredAmount.n))
      ]_vars

(* C2: every call of shouldGenerateInsights returns true or false; one    *)
(* that returns true leaves the stored lastInsightGeneration equal to the *)
(* time of the call, one that returns false leaves lastInsightGeneration  *)
(* and totalLogs as they were; no other step changes                      *)
(* lastInsightGeneration.                                                 *)
C2_TimestampFollowsTheAnswer ==
    [][IF SchedulerStep
       THEN \/ /\ lastCall'.ret = "true"
               /\ storedData'.lastInsightGeneration = NumV(clock)
            \/ /\ lastCall'.ret = "false"
               /\ storedData' = storedData
       ELSE storedData'.lastInsightGeneration = storedData.lastInsightGeneration
      ]_vars

(* C3: under AFTER_TOTAL_LOGS shouldGenerateInsights returns true if and  *)
(* only if the persisted totalLogs (0 when the key is absent) is at least *)
(* the threshold.                                                         *)
C3_AfterTotalLogsTrueIffReached ==
    [][(/\ SchedulerStep
        /\ insightFrequencyType = "afterTotalLogs"
        /\ RequiredLogs.t = "num")
       => (lastCall'.ret = "true" <=> TotalLogs(storedData) >= RequiredLogs.n)
      ]_vars

(* C4: a call of trackLogs with insights enabled and a level among        *)
(* LogLevels adds exactly one to the persisted totalLogs, and no step     *)
(* lowers totalLogs.                                                      *)
C4_TrackLogsCountsTotalLogs ==
    [][/\ (TrackStep /\ insightsEnabled /\ lastCall'.level \in LogLevels)
           => TotalLogs(storedData') = TotalLogs(storedData) + 1
       /\ TotalLogs(storedData') >= TotalLogs(storedData)
      ]_vars

(* C5: under AFTER_TOTAL_LOGS, once totalLogs has reached the threshold   *)
(* every call of shouldGenerateInsights returns true, sets the generation *)
(* time to the time of the call and leaves totalLogs as it was.           *)
C5_AfterTotalLogsKeepsFiring ==
    [][(/\ SchedulerStep
        /\ insightFrequencyType = "afterTotalLogs"
        /\ RequiredLogs.t = "num"
        /\ TotalLogs(storedData) >= RequiredLogs.n)
       => /\ lastCall'.ret = "true"
          /\ storedData'.lastInsightGeneration = NumV(clock)
          /\ storedData'.totalLogs = storedData.totalLogs
      ]_vars

(* The period of PERIODICALLY, in lower case *)
ConfiguredPeriod ==
    IF Len(insightFrequency) = 1 THEN ToLowerCase(insightFrequency[1])
    ELSE "undefined"

(* C6: under PERIODICALLY with the period daily, weekly, monthly or       *)
(* yearly in any case, and a stored generation time,                      *)
(* shouldGenerateInsights returns true if and only if the days elapsed    *)
(* are at least 1, 7, 30 or 365; with any other period name it returns    *)
(* false, writes no error and changes no state.                           *)
C6_PeriodicallyByDayCount ==
    [][(SchedulerStep /\ insightFrequencyType = "periodically")
       => IF ConfiguredPeriod \in {"daily", "weekly", "monthly", "yearly"}
          THEN TimestampStored
               => (lastCall'.ret = "true"
                   <=> Elapsed \div DaySec >=
                         (CASE ConfiguredPeriod = "daily" -> 1
                            [] ConfiguredPeriod = "weekly" -> 7
                            [] ConfiguredPeriod = "monthly" -> 30
                            [] ConfiguredPeriod = "yearly" -> 365))
          ELSE /\ lastCall'.ret = "false"
               /\ console' = <<>>
               /\ UNCHANGED <<storedData, insightsData, logCount>>
      ]_vars

(* C7: under EVERY_UNIT with a unit outside seconds, minutes, hours,      *)
(* days, weeks, months and years, shouldGenerateInsights writes an error  *)
(* to the console, returns false and changes no stored state, whether or  *)
(* not a generation time is stored.                                       *)
C7_UnsupportedUnitReported ==
    [][(/\ SchedulerStep
        /\ insightFrequencyType = "everyUnit"
        /\ ConfiguredUnit \notin SupportedUnits)
       => /\ lastCall'.ret = "false"
          /\ console' = <<"error:unsupported frequency unit">>
          /\ UNCHANGED storedData
      ]_vars

(* The configured threshold of a metric is exceeded by the average of its *)
(* samples, the average counting as 0 when the average aggregation is not *)
(* among the configured ones. Thresholds are in percent.                  *)
AverageExceeds(metric, threshold) ==
    /\ \E i \in 1..Len(insightAggregations) : insightAggregations[i] = "average"
    /\ 100 * SumOf(insightsData[metric]) > threshold * Len(insightsData[metric])

(* C8: after a call of trackLogs that tracked the event, for errorRate    *)
(* and warningRate alike, when the metric has samples and a threshold the *)
(* call reported an alert for it if and only if the average of the        *)
(* samples is greater than the threshold.                                 *)
C8_AlertIffAverageExceeds ==
    (/\ lastCall.op = "trackLogs"
     /\ insightsEnabled
     /\ lastCall.level \in LogLevels)
    => \A i \in 1..Len(insightThresholds) :
         LET metric == insightThresholds[i].type IN
           (metric \in {"errorRate", "warningRate"} /\ insightsData[metric] # <<>>)
           => (Alerted(metric)
               <=> AverageExceeds(metric, insightThresholds[i].threshold))

(* C9: with insights enabled, a call of trackLogs with a level outside    *)
(* LogLevels returns without throwing and changes neither the streams,    *)
(* the counters of the levels nor the log count.                          *)
C9_UnknownLevelIgnored ==
    [][(TrackStep /\ insightsEnabled /\ lastCall'.level \notin LogLevels)
       => /\ lastCall'.ret = "return"
          /\ UNCHANGED <<insightsData, logCount>>
      ]_vars

(* C10: with insights disabled, every call of trackLogs returns and       *)
(* changes neither insightsData, logCount nor the stored scheduler state, *)
(* and writes no alert.                                                   *)
C10_DisabledIsNoOp ==
    [][(TrackStep /\ ~insightsEnabled)
       => /\ lastCall'.ret = "return"
          /\ console' = <<>>
          /\ UNCHANGED <<insightsData, logCount, storedData>>
      ]_vars

(* Insights are disabled and trackLogs was called with an error and a     *)
(* response time, inputs that insights would track. *)
C10_Witness ==
    /\ ~insightsEnabled
    /\ lastCall.op = "trackLogs"
    /\ lastCall.level = "error"
    /\ lastCall.hasResponseTime
    /\ insightTypes = InsightTypes

(* The streams of samples of insightsData *)
StreamNames == {"responseTimes", "errorRate", "warningRate"}

(* The step is a call of trackLogs that passed both checks of lines 49-54 *)
AcceptedTrackStep ==
    TrackStep /\ insightsEnabled /\ lastCall'.level \in LogLevels

(* The stream after a sample is recorded iff `recorded` *)
AppendedIff(recorded, stream, sample) ==
    IF recorded THEN Append(stream, sample) ELSE stream

(* C11: an accepted call trackLogs(level, responseTime) returns, adds 1   *)
(* to the counter of the level iff logLevels is tracked, appends the      *)
(* response time at the end of responseTimes iff one is given and         *)
(* responseTimes is tracked, appends one sample at the end of errorRate   *)
(* iff the level is error and errorRate is tracked, one at the end of     *)
(* warningRate iff the level is warn and warningRate is tracked, and      *)
(* changes nothing else of insightsData.                                  *)
C11_TrackLogsExactEffect ==
    [][AcceptedTrackStep
       => LET level == lastCall'.level IN
          /\ lastCall'.ret = "return"
          /\ insightsData'.counts =
               IF "logLevels" \in insightTypes
               THEN [insightsData.counts EXCEPT ![level] = @ + 1]
               ELSE insightsData.counts
          /\ insightsData'.responseTimes =
               AppendedIff(lastCall'.hasResponseTime
                             /\ "responseTimes" \in insightTypes,
                           insightsData.responseTimes, lastCall'.responseTime)
          /\ insightsData'.errorRate =
               AppendedIff(level = "error" /\ "errorRate" \in insightTypes,
                           insightsData.errorRate, 1)
          /\ insightsData'.warningRate =
               AppendedIff(level = "warn" /\ "warningRate" \in insightTypes,
                           insightsData.warningRate, 1)
      ]_vars

(* C13: a call of trackLogs leaves the samples every stream already held  *)
(* where they were: the stream before the call is a prefix of the stream  *)
(* after it, whatever aggregations are configured.                        *)
C13_AggregationKeepsArrivalOrder ==
    [][TrackStep
       => \A name \in StreamNames :
            /\ Len(insightsData'[name]) >= Len(insightsData[name])
            /\ SubSeq(insightsData'[name], 1, Len(insightsData[name]))
                 = insightsData[name]
      ]_vars

(* The call that returned last was aggregateInsight *)
AggregateInsightReturned == results.shape = "aggregationResults"

(* The call that returned last was the calculate method of `kind` *)
CalculateReturned(kind) == results.shape = "value" /\ results.kind = kind

(* C14: the results aggregateInsight returned are, for every kind, what   *)
(* that kind gives for the stream as it stood after the push, whatever    *)
(* kinds were evaluated before it; and evaluating the configured kinds    *)
(* again over the stream as the call left it, nothing appended, gives the *)
(* same results.                                                          *)
C14_AggregationIdempotent ==
    AggregateInsightReturned
    => /\ \A kind \in DOMAIN results.value :
            results.value[kind] = Calculate(kind, results.of)
       /\ AggregationResults(insightAggregations, dataset).aggregationResults
            = results.value

(* C17: calculateAverage, calculateMin and calculateMax given an empty    *)
(* array return no value: the call fails, and the array stays empty.      *)
C17_EmptyDatasetFails ==
    \A kind \in {"average", "min", "max"} :
      (results.kind = kind /\ results.of = <<>>)
      => results.shape = "throw" /\ dataset = <<>>

(* The number of windows of size w an array of length L has *)
WindowCount(L, w) == IF L - w + 1 > 0 THEN L - w + 1 ELSE 0

(* C18: calculateRollingWindow on an array of length L with a window size *)
(* w >= 1 returns WindowCount(L, w) windows, the i-th being the w         *)
(* consecutive samples from position i on, and none when L < w.           *)
C18_RollingWindowExact ==
    (CalculateReturned("rollingWindow") /\ results.windowSize >= 1)
    => LET data == results.of
           w == results.windowSize
           windows == results.value
       IN /\ Len(windows) = WindowCount(Len(data), w)
          /\ \A i \in 1..Len(windows) :
               windows[i] = [j \in 1..w |-> data[i + j - 1]]
          /\ Len(data) < w => windows = <<>>

(* calculateRollingWindow returned two windows of size 3 for an array of  *)
(* four samples that are not in ascending order. *)
C18_Witness ==
    /\ CalculateReturned("rollingWindow")
    /\ results.windowSize = 3
    /\ results.of = <<3, 1, 2, 1>>
    /\ Len(results.value) = 2

(* How many times `value` occurs in the array *)
Occurrences(data, value) ==
    Cardinality({i \in 1..Len(data) : data[i] = value})

(* The values of the array that occur most often *)
MostFrequent(data) ==
    {v \in Elements(data) :
       \A u \in Elements(data) : Occurrences(data, u) <= Occurrences(data, v)}

C15_StreamsHoldFiniteNumbers ==
    /\ \A name \in StreamNames : Infinity \notin Elements(insightsData[name])
    /\ (/\ lastCall.op = "trackLogs"
        /\ insightsEnabled
        /\ lastCall.level \in LogLevels
        /\ lastCall.hasResponseTime
        /\ lastCall.responseTime = Infinity
        /\ "responseTimes" \in insightTypes)
       => lastCall.ret = "throw"

(* The streams the manager tracks *)
TrackedStreams == StreamNames \cap insightTypes

(* C16: what getInsights returns maps every tracked stream to the results *)
(* of the configured aggregation kinds over the samples the stream holds. *)
C16_GetInsightsReturnsResults ==
    lastCall.op = "getInsights"
    => /\ results.shape = "aggregationResultsByMetric"
       /\ \A metric \in TrackedStreams :
            results.value[metric] =
              AggregationResults(insightAggregations,
                                 insightsData[metric]).aggregationResults

(* The step is a call of log *)
LogStep == calls' = calls + 1 /\ lastCall'.op = "log"

(* C12: a call of log that passes the level filter while insights are     *)
(* enabled returns without throwing and the insights manager has taken    *)
(* the event in: its log count is one more than before, whatever the      *)
(* scheduler answers.                                                     *)
C12_LogIngestsEveryEvent ==
    [][(/\ LogStep
        /\ insightsEnabled
        /\ ~BelowLogLevel(logCraft, lastCall'.level))
       => /\ lastCall'.ret = "return"
          /\ logCount' = logCount + 1
      ]_vars

(* The four levels from the lowest rank to the highest *)
LevelOrder == <<"debug", "info", "warn", "error">>

(* The place of a level in that order *)
RankOf(level) == CHOOSE i \in 1..Len(LevelOrder) : LevelOrder[i] = level

(* C21: a call of log with one of the four levels, on a LogCraft whose    *)
(* minimum level is one of the four, puts out nothing, returns and leaves *)
(* the insights manager and the store as they were when the level ranks   *)
(* below the minimum; it puts the message out when the level ranks equal  *)
(* or higher.                                                             *)
C21_LevelFilter ==
    [][(/\ LogStep
        /\ lastCall'.level \in LogLevels
        /\ logCraft.logLevel \in LogLevels)
       => IF RankOf(lastCall'.level) < RankOf(logCraft.logLevel)
          THEN /\ lastCall'.ret = "return"
               /\ emitted' = <<>>
               /\ console' = <<>>
               /\ UNCHANGED <<insightsData, logCount, storedData>>
          ELSE emitted' # <<>>
      ]_vars

(* log was called with debug on a LogCraft whose minimum level is warn    *)
(* and put out nothing. *)
C21_Witness ==
    /\ lastCall.op = "log"
    /\ lastCall.level = "debug"
    /\ logCraft.logLevel = "warn"
    /\ emitted = <<>>

----------------------------------------------------------------------------
(* Data instances *)

(* A step that is a call of op on a Data instance *)
DataStep(op) == calls' = calls + 1 /\ dataCall'.op = op

(* What get(key) and exists(key) answer on an object *)
Answers(object) ==
    [key \in DataKeys |->
       <<DataGet(object, key), DataExists(object, key)>>]

C30_NoLostWrites ==
    [][DataStep("set") =>
         \A k \in DataKeys \ {dataCall'.key} :
            (dataFile.exists /\ dataFile.content[k] # Absent) =>
               /\ dataFile'.content[k] = dataFile.content[k]
               /\ NewData(dataFile').storedData[k] = dataFile.content[k]
      ]_vars

----------------------------------------------------------------------------
(* LogCraft properties *)

(* The first of an option, the config file's value and the default that   *)
(* was given at all                                                       *)
FirstGiven(option, fromFile, default) ==
    IF option # "undefined" THEN option
    ELSE IF fromFile # "undefined" THEN fromFile ELSE default

(* C23: a LogCraft property is the option when one was given, else the    *)
(* config file's value, else the default (logLevel INFO, logToConsole     *)
(* true, enableColors true); an explicit false wins, and a logger built   *)
(* with logToConsole false writes nothing to the console.                 *)
C23_OptionPrecedence ==
    logCraft.constructed =>
       LET options == newLogCraft.options
           configData == newLogCraft.configData
           toConsole == FirstGiven(options.logToConsole,
                                   configData.logToConsole, "true")
           colors == FirstGiven(options.enableColors,
                                configData.enableColors, "true")
       IN /\ logCraft.logLevel =
               FirstGiven(options.logLevel, configData.logLevel, "info")
          /\ logCraft.logToConsole = (toConsole = "true")
          /\ logCraft.enableColors = (colors = "true")
          /\ toConsole = "false" =>
                \A i \in 1..Len(emitted) :
                   emitted[i] \notin {"console:colorized", "console:plain"}

(* C24: the manager LogCraft builds tracks the configured insight types   *)
(* (all four by default) and uses the configured frequency type and       *)
(* aggregations; so with insights enabled trackLogs(ERROR) on it appends  *)
(* a sample to errorRate.                                                 *)
C24_ManagerGetsConfiguration ==
    logCraft.constructed =>
       /\ insightTypes = InsightTypes
       /\ insightFrequencyType = DefaultConfigs.insightFrequencyType
       /\ insightAggregations = <<"average", "max">>
       /\ insightsEnabled =>
             TrackLogs(Manager, "error", FALSE, 0).insightsData.errorRate
                = Append(insightsData.errorRate, 1)

----------------------------------------------------------------------------
(* The scheduler and the configured frequency string *)

(* The amount and unit of "every <amount> <unit>" *)
EveryAmount == ParseIntToken(Word(insightFrequency, 2))
EveryUnitName == Word(insightFrequency, 3)

(* C25: under EVERY_UNIT with insightFrequency "every <n> <unit>" (the    *)
(* default is "every 7 days") shouldGenerateInsights answers true once at *)
(* least n units have passed since the stored last generation.            *)
C25_EveryNUnitsIsDue ==
    [][(/\ SchedulerStep
        /\ insightFrequencyType = "everyUnit"
        /\ Len(insightFrequency) = 3
        /\ Word(insightFrequency, 1) = "every"
        /\ EveryAmount.t = "num"
        /\ EveryUnitName \in WallClockUnits
        /\ TimestampStored
        /\ Elapsed \div UnitLength(EveryUnitName) >= EveryAmount.n)
       => lastCall'.ret = "true"
      ]_vars

(* C26: under EVERY_UNIT, while the store has no lastInsightGeneration,   *)
(* no call answers true and no step writes the key: the branch itself     *)
(* answers false, and the store stays without the key for ever.           *)
C26_EveryUnitNeverStarts ==
    [][(insightFrequencyType = "everyUnit" /\ ~TimestampStored)
       => /\ EveryUnit(insightFrequency, JsNull, storedData, clock).ret
               = "false"
          /\ SchedulerStep => lastCall'.ret # "true"
          /\ ~TimestampStored'
      ]_vars

(* Two calls were made under EVERY_UNIT on a store without the key, the   *)
(* last one of shouldGenerateInsights after the clock moved               *)
C26_Witness ==
    /\ insightFrequencyType = "everyUnit"
    /\ ~TimestampStored
    /\ lastCall.op = "shouldGenerateInsights"
    /\ calls = 2
    /\ ticks > 0

(* C27: under PERIODICALLY with a recognised period and no stored         *)
(* lastInsightGeneration, the missing time counts as the epoch, so the    *)
(* call of shouldGenerateInsights answers true.                           *)
C27_PeriodicallyStartsAtOnce ==
    [][(/\ SchedulerStep
        /\ insightFrequencyType = "periodically"
        /\ ConfiguredPeriod \in {"daily", "weekly", "monthly", "yearly"}
        /\ ~TimestampStored)
       => lastCall'.ret = "true"
      ]_vars

----------------------------------------------------------------------------
(* The streams and counters of the manager *)

(* C28: every sample of errorRate and of warningRate is 1, so the average *)
(* of either stream, when it is not empty, is exactly 1.                  *)
C28_RateSamplesAreOne ==
    \A name \in {"errorRate", "warningRate"} :
       /\ Elements(insightsData[name]) \subseteq {1}
       /\ insightsData[name] # <<>> =>
             CalculateAverage(insightsData[name]) = Quotient(1, 1)

(* Two samples are held, one at least by errorRate *)
C28_Witness ==
    /\ Len(insightsData.errorRate) + Len(insightsData.warningRate) = 2
    /\ insightsData.errorRate # <<>>
    /\ lastCall.op = "trackLogs"

(* The sum of the counters of the levels *)
CountedLevels ==
    insightsData.counts["debug"] + insightsData.counts["info"]
      + insightsData.counts["warn"] + insightsData.counts["error"]

(* What the streams and counters hold against logCount *)
CountersAgree ==
    /\ Len(insightsData.errorRate) + Len(insightsData.warningRate) <= logCount
    /\ Len(insightsData.responseTimes) <= logCount
    /\ "logLevels" \in insightTypes => CountedLevels = logCount

(* C29: logCount goes up by one with every call of trackLogs made with    *)
(* insights enabled and a level that is one of the four, and with no      *)
(* other step, so it never goes down; errorRate and warningRate together, *)
(* and responseTimes, hold at most logCount samples; and when logLevels   *)
(* is tracked the counters of the levels add up to logCount.              *)
C29_LogCountBounds ==
    [][/\ logCount' = logCount + (IF AcceptedTrackStep THEN 1 ELSE 0)
       /\ logCount' >= logCount
       /\ CountersAgree
       /\ CountersAgree'
      ]_vars

(* Two accepted calls were counted, one of them with a response time, an  *)
(* error among them, the levels tracked                                   *)
C29_Witness ==
    /\ logCount = 2
    /\ "logLevels" \in insightTypes
    /\ Len(insightsData.responseTimes) = 1
    /\ Len(insightsData.errorRate) = 1
    /\ CountedLevels = 2

====
